---- MODULE Spec2Model ----
\* Model of package cron (jrdnull/cron): Parse and the field expander.
\* Strings are sequences of one-character strings; uint8 arithmetic is kept
\* modulo 2^8; the loop of stepRange is taken one iteration per step.
EXTENDS Integers, Sequences, FiniteSets, TLC

\* ------------------------------------------------------------------ bounds
\* endpoints and single values 0..MaxSmall are enumerated besides EdgeNums
MaxSmall == 2
\* steps 0..MaxStep are enumerated besides EdgeSteps
MaxStep == 3
\* longest generic comma list
MaxPieces == 3
\* longest generic top-level token sequence
MaxToks == 7
\* cap on the slice built by stepRange (the loop of step 0 never ends)
MaxRet == 61

\* --------------------------------------------------------- field constants
minute == 0
hour == 1
dayOfMonth == 2
month == 3
dayOfWeek == 4
command == 5

Fields == {minute, hour, dayOfMonth, month, dayOfWeek}

Uint8(n) == n % 256

validRanges ==
    (minute :> <<0, 59>>) @@ (hour :> <<0, 23>>) @@ (dayOfMonth :> <<1, 31>>)
    @@ (month :> <<1, 12>>) @@ (dayOfWeek :> <<0, 7>>)

validNames ==
    (month :>
        ((<<"j","a","n">> :> 1) @@ (<<"f","e","b">> :> 2) @@ (<<"m","a","r">> :> 3)
         @@ (<<"a","p","r">> :> 4) @@ (<<"m","a","y">> :> 5) @@ (<<"j","u","n">> :> 6)
         @@ (<<"j","u","l">> :> 7) @@ (<<"a","u","g">> :> 8) @@ (<<"s","e","p">> :> 9)
         @@ (<<"o","c","t">> :> 10) @@ (<<"n","o","v">> :> 11) @@ (<<"d","e","c">> :> 12)))
    @@ (dayOfWeek :>
        ((<<"m","o","n">> :> 1) @@ (<<"t","u","e">> :> 2) @@ (<<"w","e","d">> :> 3)
         @@ (<<"t","h","u">> :> 4) @@ (<<"f","r","i">> :> 5) @@ (<<"s","a","t">> :> 6)
         @@ (<<"s","u","n">> :> 7)))

\* ------------------------------------------------------------ package strings
Uppers == <<"A","B","C","D","E","F","G","H","I","J","K","L","M",
            "N","O","P","Q","R","S","T","U","V","W","X","Y","Z">>
Lowers == <<"a","b","c","d","e","f","g","h","i","j","k","l","m",
            "n","o","p","q","r","s","t","u","v","w","x","y","z">>

ToLowerRune(c) ==
    IF \E j \in 1..26 : Uppers[j] = c
    THEN Lowers[CHOOSE j \in 1..26 : Uppers[j] = c]
    ELSE c

\* strings.ToLower
ToLower_Identity(t) == t
ToLower(t) == [j \in 1..Len(t) |-> ToLowerRune(t[j])]

\* index of the first sep in t, 0 when there is none
IndexOf(t, sep) ==
    IF \E j \in 1..Len(t) : t[j] = sep
    THEN CHOOSE j \in 1..Len(t) : t[j] = sep /\ \A l \in 1..(j-1) : t[l] # sep
    ELSE 0

\* strings.SplitN(t, sep, n) for a one-character sep and n > 0:
\* at most n substrings, the last one the unsplit remainder
RECURSIVE SplitN_NoLimit(_, _, _)
RECURSIVE SplitN(_, _, _)
SplitN_NoLimit(t, sep, n) ==
    IF IndexOf(t, sep) = 0 THEN <<t>>
    ELSE <<SubSeq(t, 1, IndexOf(t, sep) - 1)>>
         \o SplitN_NoLimit(SubSeq(t, IndexOf(t, sep) + 1, Len(t)), sep, n)
SplitN(t, sep, n) ==
    IF n = 1 \/ IndexOf(t, sep) = 0 THEN <<t>>
    ELSE <<SubSeq(t, 1, IndexOf(t, sep) - 1)>>
         \o SplitN(SubSeq(t, IndexOf(t, sep) + 1, Len(t)), sep, n - 1)

\* strings.Split(t, sep): all substrings
Split(t, sep) == SplitN(t, sep, Len(t) + 1)

HasPrefix(t, p) == Len(t) >= Len(p) /\ SubSeq(t, 1, Len(p)) = p

Contains(t, c) == IndexOf(t, c) # 0

\* ------------------------------------------------------------ package strconv
DigitChars == <<"0","1","2","3","4","5","6","7","8","9">>

IsDigit(c) == \E d \in 1..10 : DigitChars[d] = c
DigitVal(c) == (CHOOSE d \in 1..10 : DigitChars[d] = c) - 1

\* the accumulation loop of strconv.ParseUint in base 10 (the texts of the
\* model have at most four digits, far below the 64-bit cutoff)
RECURSIVE ParseDigits(_, _)
ParseDigits(t, acc) ==
    IF t = <<>> THEN acc ELSE ParseDigits(Tail(t), acc * 10 + DigitVal(Head(t)))

\* strconv.ParseInt(t, 10, bitSize): optional sign, digits only, the result
\* clamped with a range error outside -2^(bitSize-1) .. 2^(bitSize-1)-1
ParseInt(t, bitSize) ==
    LET neg    == t # <<>> /\ t[1] = "-"
        body   == IF t # <<>> /\ t[1] \in {"+", "-"} THEN Tail(t) ELSE t
        cutoff == 2 ^ (bitSize - 1)
    IN  IF body = <<>> \/ \E j \in 1..Len(body) : ~IsDigit(body[j])
        THEN [x |-> 0, err |-> "syntax"]
        ELSE LET un == ParseDigits(body, 0) IN
             IF ~neg /\ un >= cutoff THEN [x |-> cutoff - 1, err |-> "range"]
             ELSE IF neg /\ un > cutoff THEN [x |-> -cutoff, err |-> "range"]
             ELSE [x |-> IF neg THEN -un ELSE un, err |-> "nil"]

\* atoi: ParseInt into 8 signed bits, converted to uint8
atoi(t) == [x |-> Uint8(ParseInt(t, 8).x), err |-> ParseInt(t, 8).err]

\* ------------------------------------------------------------------ errors
\* an error built by fmt.Errorf / errors.New: the message of the format
\* string, its %d arguments and its %v argument
Err(msg, nums, text) == [msg |-> msg, nums |-> nums, text |-> text]
NilErr == Err("", <<>>, <<>>)

\* what one of the expand* functions does: return (vals, err), or end by
\* returning stepRange(start, end, step)
Return(vals) == [tag |-> "ret", vals |-> vals, err |-> NilErr,
                 start |-> 0, end |-> 0, step |-> 0]
Fail(e) == [tag |-> "ret", vals |-> <<>>, err |-> e,
            start |-> 0, end |-> 0, step |-> 0]
CallStepRange(start, end, step) ==
    [tag |-> "call", vals |-> <<>>, err |-> NilErr,
     start |-> start, end |-> end, step |-> step]

\* ------------------------------------------------------------ field expander
expandAny_NoShift(field, min, max) == CallStepRange(min, max, 1)
expandAny(field, min, max) ==
    CallStepRange(IF field = dayOfWeek THEN Uint8(min + 1) ELSE min, max, 1)

expandAnyStepRange(t, min, max) ==
    LET st == atoi(SubSeq(t, 3, Len(t))) IN
    IF st.err # "nil" THEN Fail(Err("invalid step range", <<>>, t))
    ELSE CallStepRange(min, max, st.x)

expandRange(t, min, max) ==
    LET parts1  == Split(t, "-")
        start   == atoi(parts1[1])
        hasStep == Contains(parts1[2], "/")
        parts2  == Split(parts1[2], "/")
        endStr  == IF hasStep THEN parts2[1] ELSE parts1[2]
        st      == IF hasStep THEN atoi(parts2[2]) ELSE [x |-> 1, err |-> "nil"]
        end     == atoi(endStr)
    IN  IF Len(parts1) # 2 THEN Fail(Err("invalid range", <<>>, t))
        ELSE IF start.err # "nil"
             THEN Fail(Err("invalid range start", <<>>, parts1[1]))
        ELSE IF hasStep /\ Len(parts2) # 2
             THEN Fail(Err("invalid step range", <<>>, t))
        ELSE IF st.err # "nil" THEN Fail(Err("invalid step range", <<>>, t))
        ELSE IF end.err # "nil" THEN Fail(Err("invalid range end", <<>>, endStr))
        ELSE IF start.x > end.x
             THEN Fail(Err("invalid range", <<start.x, end.x>>, <<>>))
        ELSE IF (min > start.x \/ start.x > max) \/ (min > end.x \/ end.x > max)
             THEN Fail(Err("outside of range", <<min, max>>, <<>>))
        ELSE CallStepRange(start.x, end.x, st.x)

expandSingle(t, field, min, max) ==
    IF field \in DOMAIN validNames /\ ToLower(t) \in DOMAIN validNames[field]
    THEN Return(<<validNames[field][ToLower(t)]>>)
    ELSE IF atoi(t).err = "nil"
         THEN IF min > atoi(t).x \/ atoi(t).x > max
              THEN Fail(Err("outside of range", <<min, max>>, <<>>))
              ELSE Return(<<atoi(t).x>>)
         ELSE Fail(Err("invalid value", <<>>, t))

\* the switch of expand, taken by every text that is not a list
expandSwitch(t, field, min, max) ==
    IF t = <<"*">> THEN expandAny(field, min, max)
    ELSE IF HasPrefix(t, <<"*", "/">>) THEN expandAnyStepRange(t, min, max)
    ELSE IF Contains(t, "-") THEN expandRange(t, min, max)
    ELSE expandSingle(t, field, min, max)

\* ret = append(ret, exp...)
appendAll_Reversed(ret0, exp) == exp \o ret0
appendAll(ret0, exp) == ret0 \o exp

\* --------------------------------------------------------------- Expression
Expression(mi, ho, dm, mo, dw, cmd) ==
    [Minute |-> mi, Hour |-> ho, DayOfMonth |-> dm, Month |-> mo,
     DayOfWeek |-> dw, Command |-> cmd]
EmptyExpression == Expression(<<>>, <<>>, <<>>, <<>>, <<>>, <<>>)

\* the error Parse returns: fmt.Errorf("%d: %w", i, err), or a bare error
ParseErr(prefix, e) == [prefix |-> prefix, e |-> e]
NoParseErr == ParseErr(<<>>, NilErr)

\* ------------------------------------------------------------------ inputs
\* decimal text of an integer, as the inputs are written
RECURSIVE FormatNat(_)
FormatNat(n) ==
    IF n < 10 THEN <<DigitChars[n + 1]>>
    ELSE FormatNat(n \div 10) \o <<DigitChars[(n % 10) + 1]>>
FormatInt(n) == IF n < 0 THEN <<"-">> \o FormatNat(-n) ELSE FormatNat(n)

RECURSIVE JoinWith(_, _)
JoinWith(ts, sep) ==
    IF ts = <<>> THEN <<>>
    ELSE IF Len(ts) = 1 THEN ts[1]
    ELSE ts[1] \o <<sep>> \o JoinWith(Tail(ts), sep)

EdgeNums == {7, 8, 12, 13, 31, 32, 59, 60, 127, 128, 255, 256}
EndNums == (0..MaxSmall) \cup EdgeNums
EdgeSteps == {-128, -1, 10, 15, 100, 127, 128, 255, 256}
StepNums == (0..MaxStep) \cup EdgeSteps

MonthNames == << <<"j","a","n">>, <<"f","e","b">>, <<"m","a","r">>, <<"a","p","r">>,
                 <<"m","a","y">>, <<"j","u","n">>, <<"j","u","l">>, <<"a","u","g">>,
                 <<"s","e","p">>, <<"o","c","t">>, <<"n","o","v">>, <<"d","e","c">> >>
DayNames == << <<"m","o","n">>, <<"t","u","e">>, <<"w","e","d">>, <<"t","h","u">>,
               <<"f","r","i">>, <<"s","a","t">>, <<"s","u","n">> >>

ToUpperRune(c) ==
    IF \E j \in 1..26 : Lowers[j] = c
    THEN Uppers[CHOOSE j \in 1..26 : Lowers[j] = c]
    ELSE c
\* every casing of a name
Casings(name) ==
    {[j \in 1..Len(name) |-> IF j \in U THEN ToUpperRune(name[j]) ELSE name[j]] :
        U \in SUBSET (1..Len(name))}

\* one comma-free piece of a field, by the grammar form it is written in
Piece(kind, a, b, n, hasStep, txt) ==
    [kind |-> kind, a |-> a, b |-> b, n |-> n, hasStep |-> hasStep, txt |-> txt]
PAny == Piece("any", 0, 0, 0, FALSE, <<>>)
PAnyStep(n) == Piece("anystep", 0, 0, n, TRUE, <<>>)
PRange(a, b) == Piece("range", a, b, 1, FALSE, <<>>)
PRangeStep(a, b, n) == Piece("range", a, b, n, TRUE, <<>>)
PSingle(a) == Piece("single", a, 0, 0, FALSE, <<>>)
PName(txt, val, table) == Piece("name", val, table, 0, FALSE, txt)
PRaw(txt) == Piece("raw", 0, 0, 0, FALSE, txt)

PieceText(p) ==
    CASE p.kind = "any" -> <<"*">>
      [] p.kind = "anystep" -> <<"*", "/">> \o FormatInt(p.n)
      [] p.kind = "range" ->
            FormatInt(p.a) \o <<"-">> \o FormatInt(p.b)
            \o (IF p.hasStep THEN <<"/">> \o FormatInt(p.n) ELSE <<>>)
      [] p.kind = "single" -> FormatInt(p.a)
      [] OTHER -> p.txt

\* texts outside the grammar, most of them from the error cases of TestParse
RawTexts ==
    { <<>>, <<"a">>, <<"x","1">>, <<"1","x">>, <<"1","/","2">>, <<"*","*">>,
      <<"/">>, <<"+","5">>, <<"0","0","7">>, <<"-","1">>, <<"1","-">>,
      <<"1","-","1","-","1">>, <<"1","-","t","w","o">>, <<"o","n","e","-","2">>,
      <<"1","-","5","/","x">>, <<"1","-","5","/">>, <<"1","-","5","/","1","/","2">>,
      <<"*","/","x">>, <<"*","/">>, <<"*","/","+","5">>, <<"*","/","1","/","2">>,
      <<"m","o","n","-","w","e","d">>, <<"j","a","n","-","m","a","r">>,
      <<"M","o","n","-","5">>, <<"1","-","s","u","n">> }

NamePieces ==
    UNION {{PName(c, j, month) : c \in Casings(MonthNames[j])} : j \in 1..12}
    \cup UNION {{PName(c, j, dayOfWeek) : c \in Casings(DayNames[j])} : j \in 1..7}

Pieces ==
    {PAny}
    \cup {PAnyStep(n) : n \in StepNums}
    \cup {PRange(a, b) : a \in EndNums, b \in EndNums}
    \cup {PRangeStep(a, b, n) : a \in EndNums, b \in EndNums, n \in StepNums}
    \cup {PSingle(a) : a \in EndNums}
    \cup NamePieces
    \cup {PRaw(r) : r \in RawTexts}

\* the pieces of the generic lists
ListPieces ==
    {PSingle(0), PSingle(1), PSingle(7), PRangeStep(2, 4, 2), PSingle(60),
     PRaw(<<"x">>)}
\* the lists of TestParse, of the README and of the package comment
ExampleLists ==
    { <<PSingle(0), PSingle(1), PSingle(2), PRangeStep(10, 59, 10)>>,
      <<PRange(0, 5), PRange(50, 55)>>,
      <<PSingle(1), PSingle(2), PRange(5, 100)>>,
      <<PSingle(1), PSingle(15)>>,
      <<PSingle(10), PSingle(20)>>,
      <<PAny, PSingle(3)>>,
      <<PName(<<"S","u","N">>, 7, dayOfWeek), PSingle(0)>>,
      <<PSingle(1), PRaw(<<>>)>> }
Lists ==
    ExampleLists \cup UNION {[1..n -> ListPieces] : n \in 2..MaxPieces}

FieldText(ps) == JoinWith([j \in 1..Len(ps) |-> PieceText(ps[j])], ",")

\* the fields and the command the test cases put around the field under test
DefaultToks == << <<"0">>, <<"0">>, <<"1">>, <<"1">>, <<"1">>,
                  <<"/","b","i","n","/","t","e","s","t">> >>
\* the tokens of the inputs that vary the top-level shape
ShapeToks == { <<"1">>, <<"\"">>, <<>> }

\* an input: the field under test f written as pieces, inside toks
FieldForm(f, ps) ==
    [kind |-> "field", f |-> f, pieces |-> ps,
     toks |-> [DefaultToks EXCEPT ![f + 1] = FieldText(ps)]]
ShapeForm(toks) == [kind |-> "shape", f |-> 0, pieces |-> <<>>, toks |-> toks]

Forms ==
    {FieldForm(f, <<p>>) : f \in Fields, p \in Pieces}
    \cup {FieldForm(f, ps) : f \in Fields, ps \in Lists}
    \cup {ShapeForm(toks) : toks \in UNION {[1..n -> ShapeToks] : n \in 0..MaxToks}}

InputOf(fm) == JoinWith(fm.toks, " ")

\* -------------------------------------------------------------------- state
VARIABLES
    s,          \* the argument of Parse
    form,       \* how s is written (the test case it stands for); never read by the code
    pc,         \* "Parse", "expand", "list", "stepRange", "done"
    parts,      \* Parse: parts
    i,          \* Parse: the loop index
    expanded,   \* Parse: expanded
    pieces,     \* expand (list): parts
    k,          \* expand (list): position of the range loop over parts, from 1
    ret,        \* expand (list): ret
    inList,     \* whether the running stepRange returns into the list loop
    x,          \* stepRange: x
    end,        \* stepRange: end
    step,       \* stepRange: step
    sr,         \* stepRange: ret
    calls,      \* the recursive expand calls of the current list, as they returned
    result,     \* the Expression Parse returned
    err         \* the error Parse returned

vars == <<s, form, pc, parts, i, expanded, pieces, k, ret, inList,
          x, end, step, sr, calls, result, err>>

parseVars == <<parts, i, expanded>>
listVars == <<pieces, k, ret, calls>>
loopVars == <<x, end, step, sr, inList>>
outVars == <<result, err>>

Init ==
    /\ form \in Forms
    /\ s = InputOf(form)
    /\ pc = "Parse"
    /\ parts = <<>>
    /\ i = 0
    /\ expanded = [f \in Fields |-> <<>>]
    /\ pieces = <<>>
    /\ k = 1
    /\ ret = <<>>
    /\ inList = FALSE
    /\ x = 0
    /\ end = 0
    /\ step = 0
    /\ sr = <<>>
    /\ calls = <<>>
    /\ result = EmptyExpression
    /\ err = NoParseErr

\* one returned recursive call of expand
CallRecord(t, field, min, max, vals, e) ==
    [t |-> t, field |-> field, min |-> min, max |-> max, vals |-> vals, err |-> e]

\* Parse, lines 102-104: return Expression{}, fmt.Errorf("%d: %w", i, err)
ParseFails(e) ==
    /\ result' = EmptyExpression
    /\ err' = ParseErr(<<i>>, e)
    /\ pc' = "done"
    /\ UNCHANGED parseVars

\* Parse, line 105 and the loop increment: expanded[i] = v; i++
FieldExpanded(v) ==
    /\ expanded' = [expanded EXCEPT ![i] = v]
    /\ i' = Uint8(i + 1)
    /\ pc' = "expand"
    /\ UNCHANGED <<parts, result, err>>

\* return stepRange(start, end, step): the loop starts
EnterStepRange(o, fromList) ==
    /\ x' = o.start
    /\ end' = o.end
    /\ step' = o.step
    /\ sr' = <<>>
    /\ inList' = fromList
    /\ pc' = "stepRange"

\* Parse up to the loop: split, and the check of the number of parts
Parse ==
    /\ pc = "Parse"
    /\ parts' = SplitN(s, " ", 6)
    /\ IF Len(parts') # 6
       THEN /\ result' = EmptyExpression
            /\ err' = ParseErr(<<>>, Err("invalid expression", <<>>, <<>>))
            /\ pc' = "done"
       ELSE /\ pc' = "expand"
            /\ UNCHANGED outVars
    /\ i' = 0
    /\ UNCHANGED <<s, form, expanded, listVars, loopVars>>

\* one iteration of the loop of Parse: the call expand(parts[i], i, min, max),
\* up to its return or to the loop it enters
expand ==
    /\ pc = "expand"
    /\ i < 5
    /\ LET t   == parts[i + 1]
           min == validRanges[i][1]
           max == validRanges[i][2]
       IN  IF Len(Split(t, ",")) > 1
           THEN /\ pieces' = Split(t, ",")
                /\ k' = 1
                /\ ret' = <<>>
                /\ calls' = <<>>
                /\ pc' = "list"
                /\ UNCHANGED <<parseVars, loopVars, outVars>>
           ELSE LET o == expandSwitch(t, i, min, max) IN
                /\ UNCHANGED listVars
                /\ IF o.tag = "call"
                   THEN /\ EnterStepRange(o, FALSE)
                        /\ UNCHANGED <<parseVars, outVars>>
                   ELSE /\ UNCHANGED loopVars
                        /\ IF o.err # NilErr THEN ParseFails(o.err)
                           ELSE FieldExpanded(o.vals)
    /\ UNCHANGED <<s, form>>

\* one iteration of the range loop of a list: the recursive call
\* expand(ss, field, min, max), up to its return or to the loop it enters
expandListPiece ==
    /\ pc = "list"
    /\ k <= Len(pieces)
    /\ LET t   == pieces[k]
           min == validRanges[i][1]
           max == validRanges[i][2]
           o   == expandSwitch(t, i, min, max)
       IN  IF o.tag = "call"
           THEN /\ EnterStepRange(o, TRUE)
                /\ UNCHANGED <<parseVars, listVars, outVars>>
           ELSE /\ calls' = Append(calls, CallRecord(t, i, min, max, o.vals, o.err))
                /\ UNCHANGED loopVars
                /\ IF o.err # NilErr
                   THEN /\ ParseFails(o.err)
                        /\ UNCHANGED <<pieces, k, ret>>
                   ELSE /\ ret' = appendAll(ret, o.vals)
                        /\ k' = k + 1
                        /\ pc' = "list"
                        /\ UNCHANGED <<pieces, parseVars, outVars>>
    /\ UNCHANGED <<s, form>>

\* the end of the range loop of a list: return ret, nil
expandListReturn ==
    /\ pc = "list"
    /\ k > Len(pieces)
    /\ FieldExpanded(ret)
    /\ UNCHANGED <<s, form, listVars, loopVars>>

\* one iteration of the loop of stepRange
stepRange ==
    /\ pc = "stepRange"
    /\ x <= end
    /\ Len(sr) < MaxRet
    /\ sr' = Append(sr, x)
    /\ x' = Uint8(x + step)
    /\ UNCHANGED <<s, form, pc, parseVars, listVars, end, step, inList, outVars>>

\* the exit of the loop of stepRange: return ret, to the list or to Parse
stepRangeReturn ==
    /\ pc = "stepRange"
    /\ ~(x <= end)
    /\ IF inList
       THEN /\ calls' = Append(calls, CallRecord(pieces[k], i, validRanges[i][1],
                                                 validRanges[i][2], sr, NilErr))
            /\ ret' = appendAll(ret, sr)
            /\ k' = k + 1
            /\ pc' = "list"
            /\ UNCHANGED <<pieces, parseVars, outVars>>
       ELSE /\ FieldExpanded(sr)
            /\ UNCHANGED listVars
    /\ UNCHANGED <<s, form, loopVars>>

\* Parse after the loop: the Expression of the five fields and the command
ParseReturn ==
    /\ pc = "expand"
    /\ ~(i < 5)
    /\ result' = Expression(expanded[minute], expanded[hour], expanded[dayOfMonth],
                            expanded[month], expanded[dayOfWeek], parts[command + 1])
    /\ err' = NoParseErr
    /\ pc' = "done"
    /\ UNCHANGED <<s, form, parseVars, listVars, loopVars>>

Next ==
    \/ Parse
    \/ expand
    \/ expandListPiece
    \/ expandListReturn
    \/ stepRange
    \/ stepRangeReturn
    \/ ParseReturn

Spec == Init /\ [][Next]_vars

\* ------------------------------------------------------- vocabulary of the claims
\* the bounds the specification declares for the five fields
DeclaredMin == (minute :> 0) @@ (hour :> 0) @@ (dayOfMonth :> 1)
               @@ (month :> 1) @@ (dayOfWeek :> 0)
DeclaredMax == (minute :> 59) @@ (hour :> 23) @@ (dayOfMonth :> 31)
               @@ (month :> 12) @@ (dayOfWeek :> 7)

FieldOf(e, f) ==
    CASE f = minute -> e.Minute
      [] f = hour -> e.Hour
      [] f = dayOfMonth -> e.DayOfMonth
      [] f = month -> e.Month
      [] f = dayOfWeek -> e.DayOfWeek

Done == pc = "done"
Succeeded == Done /\ err = NoParseErr
\* Parse failed at field f with error e and returned no values
FailedWith(f, e) == Done /\ err = ParseErr(<<f>>, e) /\ result = EmptyExpression
Failed == Done /\ err # NoParseErr /\ result = EmptyExpression

\* the input is one field under test, written as a single piece / as a list
OnePiece == form.kind = "field" /\ Len(form.pieces) = 1
IsList == form.kind = "field" /\ Len(form.pieces) > 1
\* the text of the field under test is what Parse handed to the expander
UnderTest == Len(parts) = 6 /\ parts[form.f + 1] = FieldText(form.pieces)

\* start, start+n, start+2n, ... while <= end, for n > 0
Stepping(start, end0, n) ==
    [j \in 1..((end0 - start) \div n + 1) |-> start + (j - 1) * n]

RECURSIVE Flatten(_)
Flatten(seqs) == IF seqs = <<>> THEN <<>> ELSE Head(seqs) \o Flatten(Tail(seqs))

InBounds(f, v) == DeclaredMin[f] <= v /\ v <= DeclaredMax[f]
ValidRange(f, p) == InBounds(f, p.a) /\ InBounds(f, p.b) /\ p.a <= p.b

\* ---------------------------------------------------------------------- C1
\* C1: whenever Parse succeeds, every value of each of the five expanded
\* fields lies within the declared [min, max] of that field.
C1_ValuesWithinBounds ==
    Succeeded =>
        \A f \in Fields : \A j \in 1..Len(FieldOf(result, f)) :
            InBounds(f, FieldOf(result, f)[j])

\* ---------------------------------------------------------------------- C2
\* C2: every expansion terminates and a non-list expansion returns at most
\* max-min+1 (at most 60) elements; so at no moment has the loop of a
\* non-list expansion collected more than max-min+1 elements.
C2_ExpansionBounded ==
    pc = "stepRange" =>
        /\ Len(sr) <= DeclaredMax[i] - DeclaredMin[i] + 1
        /\ Len(sr) <= 60

\* ---------------------------------------------------------------------- C3
\* C3: a step form with a positive step N that the integer type holds
\* (1..255) expands to exactly start, start+N, ... <= end, with (start, end)
\* the field's (min, max) for */N and (A, B) for a valid range A-B or A-B/N.
C3_StepExpansionExact ==
    (Done /\ OnePiece /\ UnderTest) =>
        LET p == form.pieces[1]
            f == form.f
        IN  /\ (p.kind = "anystep" /\ p.n \in 1..255) =>
                    /\ Succeeded
                    /\ FieldOf(result, f) = Stepping(DeclaredMin[f], DeclaredMax[f], p.n)
            /\ (p.kind = "range" /\ ValidRange(f, p) /\ p.n \in 1..255) =>
                    /\ Succeeded
                    /\ FieldOf(result, f) = Stepping(p.a, p.b, p.n)

\* ---------------------------------------------------------------------- C4
\* C4: a range A-B or A-B/N with integer endpoints 0..255 (and a sound step)
\* fails without values when A > B, and fails with "outside of range: min-max"
\* of that field when A <= B and an endpoint lies outside [min, max].
C4_RangeErrors ==
    (Done /\ OnePiece /\ UnderTest /\ form.pieces[1].kind = "range"
          /\ form.pieces[1].a \in 0..255 /\ form.pieces[1].b \in 0..255
          /\ form.pieces[1].n \in 1..127) =>
        LET p == form.pieces[1]
            f == form.f
        IN  /\ p.a > p.b => Failed /\ err.prefix = <<f>>
            /\ (p.a <= p.b /\ ~(InBounds(f, p.a) /\ InBounds(f, p.b))) =>
                    FailedWith(f, Err("outside of range",
                                      <<DeclaredMin[f], DeclaredMax[f]>>, <<>>))

\* ---------------------------------------------------------------------- C5
\* C5: a single integer text x in 0..255 yields [x] when min <= x <= max and
\* fails with "outside of range: min-max" of that field otherwise; a single
\* text that is neither a name nor an integer fails with "invalid value".
NotNumberTexts == { <<>>, <<"a">>, <<"x","1">>, <<"1","x">>, <<"1","/","2">>,
                    <<"*","*">>, <<"/">> }
C5_SingleValue ==
    (Done /\ OnePiece /\ UnderTest) =>
        LET p == form.pieces[1]
            f == form.f
        IN  /\ (p.kind = "single" /\ p.a \in 0..255) =>
                    IF InBounds(f, p.a)
                    THEN Succeeded /\ FieldOf(result, f) = <<p.a>>
                    ELSE FailedWith(f, Err("outside of range",
                                           <<DeclaredMin[f], DeclaredMax[f]>>, <<>>))
            /\ (p.kind = "raw" /\ p.txt \in NotNumberTexts) =>
                    FailedWith(f, Err("invalid value", <<>>, p.txt))

\* ---------------------------------------------------------------------- C6
\* C6: `*` on day-of-week expands to exactly 1,2,...,7 and on every other
\* field to the full ascending run min, min+1, ..., max.
C6_Wildcard ==
    (Done /\ OnePiece /\ UnderTest /\ form.pieces[1].kind = "any") =>
        /\ Succeeded
        /\ FieldOf(result, form.f) =
              IF form.f = dayOfWeek THEN <<1, 2, 3, 4, 5, 6, 7>>
              ELSE Stepping(DeclaredMin[form.f], DeclaredMax[form.f], 1)

C6_Witness ==
    /\ Done /\ OnePiece /\ UnderTest /\ form.pieces[1].kind = "any"
    /\ form.f = dayOfWeek
    /\ result.DayOfWeek = <<1, 2, 3, 4, 5, 6, 7>>

\* ---------------------------------------------------------------------- C7
\* C7: a list is expanded piece by piece, left to right, each piece with the
\* field and bounds of the list; the result is the concatenation of what the
\* pieces returned, not deduplicated and not sorted; the first failing piece
\* fails the whole list with its error and no values.
C7_ListConcatenation ==
    (Done /\ IsList /\ UnderTest) =>
        LET f  == form.f
            ps == form.pieces
            n  == Len(calls)
        IN  /\ n \in 1..Len(ps)
            /\ \A j \in 1..n :
                  /\ calls[j].t = PieceText(ps[j])
                  /\ calls[j].field = f
                  /\ calls[j].min = DeclaredMin[f]
                  /\ calls[j].max = DeclaredMax[f]
            /\ \A j \in 1..(n - 1) : calls[j].err = NilErr
            /\ IF calls[n].err = NilErr
               THEN /\ n = Len(ps)
                    /\ Succeeded
                    /\ FieldOf(result, f) = Flatten([j \in 1..n |-> calls[j].vals])
               ELSE FailedWith(f, calls[n].err)
            /\ (f = dayOfWeek /\ ps = <<PSingle(0), PSingle(7)>>) =>
                  result.DayOfWeek = <<0, 7>>
            /\ (f = minute /\ ps = <<PSingle(0), PSingle(1), PSingle(2),
                                     PRangeStep(10, 59, 10)>>) =>
                  result.Minute = <<0, 1, 2, 10, 20, 30, 40, 50>>
            /\ (f = minute /\ ps = <<PSingle(7), PSingle(0), PSingle(7)>>) =>
                  result.Minute = <<7, 0, 7>>

C7_Witness ==
    /\ Done /\ IsList /\ UnderTest
    /\ form.f = minute
    /\ form.pieces = <<PSingle(0), PSingle(1), PSingle(2), PRangeStep(10, 59, 10)>>
    /\ Len(calls) = 4
    /\ result.Minute = <<0, 1, 2, 10, 20, 30, 40, 50>>

\* ---------------------------------------------------------------------- C8
\* C8: on month every casing of jan..dec yields the singleton 1..12, on
\* day-of-week every casing of mon..sun yields the singleton 1..7 (sun is 7);
\* a name on minute, hour or day-of-month fails with "invalid value"; a name
\* as a range endpoint fails.
NameRangeTexts == { <<"m","o","n","-","w","e","d">>, <<"j","a","n","-","m","a","r">>,
                    <<"M","o","n","-","5">>, <<"1","-","s","u","n">> }
FirstBad(toks) ==
    CHOOSE j \in 1..5 : toks[j] # <<"1">> /\ \A l \in 1..(j - 1) : toks[l] = <<"1">>
C9_Parse ==
    Done =>
        LET toks == form.toks
            cmd  == JoinWith(SubSeq(toks, 6, Len(toks)), " ")
        IN  /\ err = ParseErr(<<>>, Err("invalid expression", <<>>, <<>>))
                  <=> Len(toks) < 6
            /\ err # NoParseErr => result = EmptyExpression
            /\ (Len(toks) >= 6 /\ err # NoParseErr) =>
                  /\ Len(err.prefix) = 1
                  /\ err.prefix[1] \in 0..4
                  /\ err.e # NilErr
            /\ (Len(toks) >= 6 /\ err = NoParseErr) =>
                  /\ result.Command = cmd
                  /\ \A f \in Fields : FieldOf(result, f) = expanded[f]
                  /\ \A f \in Fields : FieldOf(result, f) # <<>>
            /\ (form.kind = "shape" /\ Len(toks) >= 6) =>
                  IF \A j \in 1..5 : toks[j] = <<"1">>
                  THEN /\ err = NoParseErr
                       /\ result = Expression(<<1>>, <<1>>, <<1>>, <<1>>, <<1>>, cmd)
                  ELSE FailedWith(FirstBad(toks) - 1,
                                  Err("invalid value", <<>>, toks[FirstBad(toks)]))
            /\ (form.kind = "field" /\ err # NoParseErr) => err.prefix = <<form.f>>
            /\ (form.kind = "field" /\ err = NoParseErr) =>
                  \A f \in Fields \ {form.f} :
                      FieldOf(result, f) = <<IF f \in {minute, hour} THEN 0 ELSE 1>>

C9_Witness ==
    /\ Done
    /\ form.kind = "shape"
    /\ Len(form.toks) = 7
    /\ err = NoParseErr
    /\ result = Expression(<<1>>, <<1>>, <<1>>, <<1>>, <<1>>, <<"\"", " ", "\"">>)

\* ---------------------------------------------------------------------- C10
\* C10: a step that is not a positive integer of the type (not in 1..255), an
\* endpoint or single value beyond the type, and non-numeric or empty number
\* text all make the expansion fail; none is accepted and expanded.
BadNumberTexts ==
    { <<>>, <<"a">>, <<"x","1">>, <<"1","x">>, <<"1","/","2">>, <<"/">>,
      <<"-","1">>, <<"1","-">>, <<"1","-","t","w","o">>, <<"o","n","e","-","2">>,
      <<"1","-","5","/","x">>, <<"1","-","5","/">>, <<"*","/","x">>, <<"*","/">> }
BadNumber(p) ==
    \/ p.kind = "anystep" /\ p.n \notin 1..255
    \/ p.kind = "range" /\ (p.n \notin 1..255 \/ p.a > 255 \/ p.b > 255)
    \/ p.kind = "single" /\ p.a > 255
    \/ p.kind = "raw" /\ p.txt \in BadNumberTexts
C10_BadNumbersRejected ==
    (OnePiece /\ UnderTest /\ BadNumber(form.pieces[1])) =>
        /\ ~(pc = "stepRange" /\ i = form.f)
        /\ Done => Failed

====
